---- MODULE Spec2Model ----
(***************************************************************************)
(* Model of the httpc request builder, dispatcher and response resolver    *)
(* (the content-type keyed decoder / error-handler variant of Request[T]). *)
(*                                                                         *)
(* Strings that the code inspects character by character (Content-Type     *)
(* header values) are sequences of one-character strings; "j" stands for   *)
(* the media type application/json and "c" for a parameter.  A query       *)
(* string is the sequence of its <<key, value>> pairs.                     *)
(***************************************************************************)
EXTENDS Integers, Sequences, FiniteSets, TLC

VARIABLES T, r, last, herr, world

vars == <<T, r, last, herr, world>>

----------------------------------------------------------------------------
(* Bounds and input domains *)

\* Most values one query key may carry on a builder (caps repeated dispatch).
MaxVals == 2

StatusOK == 200

ResultTypes == {"bytes", "struct"}

Keys == {"a", "b"}
KeyOrder == <<"a", "b">>
Vals == {"1", "2"}

\* Response status codes: success, another 2xx, a client error.
Statuses == {200, 201, 404}

\* Response bodies: "n" is a JSON null, "b" any other document.
Bodies == {"n", "b"}

\* Content-Type header values of responses (<<>> is an absent header).
HeaderValues ==
  { <<>>,
    <<"j", ";", " ", "c">>,
    <<"j", " ", ";", "c">> }

\* Content-type keys a caller registers decoders and error handlers under.
RegKeys == { <<"j">> }

DecoderFuncs == {"dConv", "dFail"}
ErrorHandlerFuncs == {"hWrap", "hNil"}

\* Struct-like parameter values handed to the Parameter Encoder.
Params == {"pA2", "pB2", "pBad"}

\* Target URL strings: validity and the pairs of the embedded query string.
URLs ==
  { [valid |-> TRUE,  query |-> <<>>],
    [valid |-> TRUE,  query |-> << <<"a", "1">> >>],
    [valid |-> FALSE, query |-> <<>>] }

\* Argument lists of Get after the URL: none, one struct, one key/value pair.
GetParams == {<<>>} \cup {<<p>> : p \in Params} \cup {<<"a", "1">>}

\* What the HTTP client collaborator answers to one dispatched request.
\* reads and closes count the io.ReadAll and Close calls on the response's
\* body resource; both are 0 in what the client hands over.
Nets ==
  { [kind |-> "terr", status |-> 0, hdr |-> <<>>, body |-> "",
     reads |-> 0, closes |-> 0] }
  \cup { [kind |-> "readfail", status |-> s, hdr |-> <<>>, body |-> "",
          reads |-> 0, closes |-> 0] :
           s \in {200, 404} }
  \cup { [kind |-> "resp", status |-> s, hdr |-> h, body |-> b,
          reads |-> 0, closes |-> 0] :
           s \in Statuses, h \in HeaderValues, b \in Bodies }

JsonHdr == <<"j", ";", " ", "c">>

QueryNets ==
  { [kind |-> "terr", status |-> 0, hdr |-> <<>>, body |-> "",
     reads |-> 0, closes |-> 0],
    [kind |-> "resp", status |-> 200, hdr |-> JsonHdr, body |-> "b",
     reads |-> 0, closes |-> 0] }

\* The builders of the two-builder specification, and the *http.Client
\* values their caller hands to HTTPClient.
Builders == {1, 2}
Clients == {"c1"}

\* The responder functions a builder of the responder variant may hold.
Responders == {"default", "rConv", "rFail"}

\* Credentials handed to BasicAuth.
\* Headers a caller sets: the key as written and one value.
HeaderPairs ==
  { <<"x-trace", "1">>, <<"Cache-Control", "max-age=0">>,
    <<"Authorization", "Bearer t">> }
\* Arguments of Headers: an http.Header, a map[string]string, another type.
HeaderArgs ==
  { [type |-> "http.Header",
     pairs |-> << <<"x-trace", "1">>, <<"x-trace", "2">> >>],
    [type |-> "map[string]string", pairs |-> << <<"x-trace", "1">> >>],
    [type |-> "other", pairs |-> <<>>] }
\* The most values the model lets one header key hold.
MaxHeaderVals == 2
\* Methods and content types of a caller's own TryDoFunc call.
Methods == {"", "GET", "PUT", "A B"}
ContentTypes == {"", "text/plain"}

Usernames == {"", "u", "v"}
Passwords == {"", "p"}

\* Most attachments of one PostForm call, and their file names by position.
MaxAttachments == 2
FileNames == <<"f1", "f2", "f3", "f4", "f5">>

\* An attachment is built by form.Bytes, by form.File on a regular file, or
\* by form.File on a path that opens but cannot be read (a directory).
AttachmentKinds == {"bytes", "file", "dir"}

\* Most bytes of an error response's body, and most ResponseBody calls on
\* one Error.
MaxBody == 2
MaxCalls == 3

BodyData == UNION {[1..n -> {"x", "y"}] : n \in 0..MaxBody}

\* Responses handed to NewError, their bodies unread.
Responses ==
  { [data |-> d, failAt |-> f, reads |-> 0, closes |-> 0] :
      d \in BodyData, f \in -1..MaxBody }

----------------------------------------------------------------------------
(* Values of the result type T and errors *)

Zero == [t |-> "nil", b |-> ""]
Bytes(b) == [t |-> "bytes", b |-> b]
Obj(b) == [t |-> "obj", b |-> b]

NilErr == [type |-> "nil", status |-> 0, body |-> ""]
Err(name) == [type |-> name, status |-> 0, body |-> ""]
IsNil(e) == e.type = "nil"

ErrNoAvailableEncoder == Err("ErrNoAvailableEncoder")
ErrNoAvailableDecoder == Err("ErrNoAvailableDecoder")
ErrUnexpectedType == Err("ErrUnexpectedType")

\* Mutant of newError: the buffered body is not kept.
newError_NoBody(status, b) == [type |-> "Error", status |-> status, body |-> ""]

\* errors.go: &Error{response, body}; StatusCode() is the response's status.
newError(status, b) == [type |-> "Error", status |-> status, body |-> b]

----------------------------------------------------------------------------
(* url.Values / http.Header: maps from a key to a non-empty list of values *)

EmptyMap == << >>

Set(m, k, v) ==
  [x \in (DOMAIN m) \cup {k} |-> IF x = k THEN <<v>> ELSE m[x]]

\* Mutant of Add: the new value replaces the key's values.
Add_Replaces(m, k, v) == Set(m, k, v)

Add(m, k, v) ==
  [x \in (DOMAIN m) \cup {k} |->
     IF x = k THEN (IF k \in DOMAIN m THEN Append(m[k], v) ELSE <<v>>)
     ELSE m[x]]

RECURSIVE EncodeFrom(_, _)
EncodeFrom(m, i) ==
  IF i > Len(KeyOrder) THEN <<>>
  ELSE LET k == KeyOrder[i]
           here == IF k \in DOMAIN m
                   THEN [j \in 1..Len(m[k]) |-> <<k, m[k][j]>>]
                   ELSE <<>>
       IN here \o EncodeFrom(m, i + 1)

\* url.Values.Encode: the pairs sorted by key, each key's values in order.
Encode(m) == EncodeFrom(m, 1)

\* Add for every pair of a query string, in order.
RECURSIVE AddAll(_, _)
AddAll(m, q) ==
  IF q = <<>> THEN m
  ELSE AddAll(Add(m, q[1][1], q[1][2]), Tail(q))

----------------------------------------------------------------------------
(* Collaborators: Parameter Encoder, decoders, error handlers, encoders *)

\* schema.NewEncoder().Encode(p, v): the mapping written and the error.
SchemaEncode(p) ==
  CASE p = "pA2" -> [err |-> NilErr, v |-> Set(EmptyMap, "a", "2")]
    [] p = "pB2" -> [err |-> NilErr, v |-> Set(EmptyMap, "b", "2")]
    [] OTHER     -> [err |-> Err("schema"), v |-> EmptyMap]

Upper(b) == IF b = "b" THEN "B" ELSE "N"

\* A DecoderFunc[T]: (bytes) -> (T, error).
Decode(d, b) ==
  CASE d = "dConv" ->
         [v |-> IF b = "n" THEN Zero
                ELSE IF T = "bytes" THEN Bytes(Upper(b)) ELSE Obj(b),
          err |-> NilErr]
    [] OTHER -> [v |-> Zero, err |-> Err("decode")]

\* An ErrorHandlerFunc: (response, bytes) -> error.
Handle(h, status, b) ==
  CASE h = "newError" -> newError(status, b)
    [] h = "hWrap"    -> [type |-> "Custom", status |-> status, body |-> b]
    [] OTHER          -> NilErr

----------------------------------------------------------------------------
(* Content-type token *)

IsSpace(c) == c = " "

RECURSIVE TrimLeft(_)
TrimLeft(s) ==
  IF s # <<>> /\ IsSpace(Head(s)) THEN TrimLeft(Tail(s)) ELSE s

RECURSIVE TrimRight(_)
TrimRight(s) ==
  IF s # <<>> /\ IsSpace(s[Len(s)])
  THEN TrimRight(SubSeq(s, 1, Len(s) - 1)) ELSE s

TrimSpace(s) == TrimRight(TrimLeft(s))

\* strings.Split(s, ";")[0]
SplitFirst(s) ==
  LET idx == {i \in 1..Len(s) : s[i] = ";"}
  IN IF idx = {} THEN s
     ELSE SubSeq(s, 1, (CHOOSE i \in idx : \A j \in idx : i <= j) - 1)

contentType(value) ==
  IF value = <<>> THEN <<>> ELSE SplitFirst(TrimSpace(value))

----------------------------------------------------------------------------
(* The builder: Request[T] *)

NilValues == [nil |-> TRUE, m |-> EmptyMap]
\* A request body reader: what it yields and how many bytes are left unread.
NilBody == [kind |-> "nil", data |-> <<>>, rem |-> 0]
NilResult == [nil |-> TRUE, bytes |-> "", decoder |-> "nil"]

\* NewRequestFunc: headers, decoders, errorHandlers and defaultErrorHandler
\* are set; every other field keeps its zero value (values is a nil map).
NewRequestFunc ==
  [ method              |-> "",
    values              |-> NilValues,
    headers             |-> EmptyMap,
    body                |-> NilBody,
    encoderContentType  |-> "",
    encoder             |-> "nil",
    decoders            |-> EmptyMap,
    errorHandlers       |-> EmptyMap,
    defaultErrorHandler |-> "newError",
    basicAuthUsername   |-> "",
    basicAuthPassword   |-> "",
    keepAlive           |-> FALSE,
    httpClient          |-> "nil" ]

HTTPClient(rq, c) == [rq EXCEPT !.httpClient = c]

\* The client do dispatches with: r.httpClient, or http.DefaultClient when
\* that is nil.
ClientOf(rq) ==
  IF rq.httpClient = "nil" THEN "DefaultClient" ELSE rq.httpClient

Method(rq, m) == [rq EXCEPT !.method = m]

\* textproto.CanonicalMIMEHeaderKey, which http.Header's Add and Set apply
\* to the key: the first letter and every letter after a hyphen in upper
\* case, the others in lower case.
CanonicalMIMEHeaderKey(k) ==
  CASE k = "x-trace"       -> "X-Trace"
    [] k = "cache-control" -> "Cache-Control"
    [] k = "authorization" -> "Authorization"
    [] OTHER               -> k

\* Header: r.headers.Add(key, value).
Header(rq, key, value) ==
  [rq EXCEPT !.headers = Add(@, CanonicalMIMEHeaderKey(key), value)]

RECURSIVE HeaderAddAll(_, _)
HeaderAddAll(rq, pairs) ==
  IF pairs = <<>> THEN rq
  ELSE HeaderAddAll(Header(rq, pairs[1][1], pairs[1][2]), Tail(pairs))

\* Headers: every value of an http.Header or a map[string]string is added
\* to r.headers (never nil on a builder made by NewRequestFunc); any other
\* argument type panics.
Headers(rq, headers) ==
  IF headers.type \in {"http.Header", "map[string]string"}
  THEN [r |-> HeaderAddAll(rq, headers.pairs), panic |-> FALSE]
  ELSE [r |-> rq, panic |-> TRUE]

KeepAlive(rq, keepAlive) == [rq EXCEPT !.keepAlive = keepAlive]

BasicAuth(rq, username, password) ==
  [rq EXCEPT !.basicAuthUsername = username, !.basicAuthPassword = password]

Encoder(rq, ct, e) == [rq EXCEPT !.encoderContentType = ct, !.encoder = e]

Decoder(rq, ct, d) ==
  [rq EXCEPT !.decoders = [k \in (DOMAIN @) \cup {ct} |->
                             IF k = ct THEN d ELSE @[k]]]

Error(rq, ct, h) ==
  [rq EXCEPT !.errorHandlers = [k \in (DOMAIN @) \cup {ct} |->
                                  IF k = ct THEN h ELSE @[k]]]

\* Mutant of QueryStruct: the encoding is added to the accumulated values.
QueryStruct_Merges(rq, p) ==
  LET e == SchemaEncode(p)
  IN [ r      |-> IF IsNil(e.err)
                  THEN [rq EXCEPT !.values =
                          [nil |-> FALSE, m |-> AddAll(rq.values.m, Encode(e.v))]]
                  ELSE rq,
       panic  |-> FALSE,
       encErr |-> ~IsNil(e.err) ]

\* Query with one struct-like value: the encoding replaces r.values when the
\* encoder returns no error; its error is dropped.
QueryStruct(rq, p) ==
  LET e == SchemaEncode(p)
  IN [ r      |-> IF IsNil(e.err)
                  THEN [rq EXCEPT !.values = [nil |-> FALSE, m |-> e.v]]
                  ELSE rq,
       panic  |-> FALSE,
       encErr |-> ~IsNil(e.err) ]

\* Query with a key/value pair: r.values.Set(key, value); an assignment to an
\* entry of a nil map panics.
QueryPair(rq, k, v) ==
  IF rq.values.nil
  THEN [r |-> rq, panic |-> TRUE, encErr |-> FALSE]
  ELSE [ r      |-> [rq EXCEPT !.values.m = Set(@, k, v)],
         panic  |-> FALSE,
         encErr |-> FALSE ]

\* Query(params...): params is the argument list, <<p>> or <<key, value>>.
Query(rq, params) ==
  IF Len(params) = 1 THEN QueryStruct(rq, params[1])
  ELSE IF Len(params) = 2 THEN QueryPair(rq, params[1], params[2])
  ELSE [r |-> rq, panic |-> TRUE, encErr |-> FALSE]

\* Mutant of loadURL: a URL value is dropped when Query already set its key.
loadURL_ExplicitWins(rq, u) ==
  IF ~u.valid THEN [r |-> rq, err |-> Err("urlParse")]
  ELSE [ r   |-> [rq EXCEPT !.values =
                    [nil |-> FALSE,
                     m   |-> AddAll(rq.values.m,
                                    SelectSeq(u.query,
                                      LAMBDA kv : kv[1] \notin DOMAIN rq.values.m))]],
         err |-> NilErr ]

\* loadURL: url.Parse, then every value of the URL's query string is added
\* to r.values (made non-nil first).
loadURL(rq, u) ==
  IF ~u.valid THEN [r |-> rq, err |-> Err("urlParse")]
  ELSE [ r   |-> [rq EXCEPT !.values =
                    [nil |-> FALSE, m |-> AddAll(rq.values.m, u.query)]],
         err |-> NilErr ]

\* base64 of username ":" password, as http.Request.SetBasicAuth encodes it.
basicAuth(username, password) ==
  CASE username = "u" /\ password = "p" -> "Basic dTpw"
    [] username = "v" /\ password = "p" -> "Basic djpw"
    [] username = "u" /\ password = ""  -> "Basic dTo="
    [] username = "v" /\ password = ""  -> "Basic djo="
    [] username = ""  /\ password = "p" -> "Basic OnA="
    [] OTHER                            -> "Basic Og=="

\* req.SetBasicAuth: Header.Set("Authorization", ...) on the request's map.
SetBasicAuth(req, username, password) ==
  [req EXCEPT !.headers = Set(@, "Authorization", basicAuth(username, password))]

\* Mutant of ContentLength: the length of the body is never known.
ContentLength_Unknown(body) == 0

\* http.NewRequestWithContext: ContentLength is the unread length of a
\* *strings.Reader or *bytes.Buffer body and 0 (unknown) for any other
\* reader; the transport announces a known length as Content-Length.
ContentLength(body) ==
  IF body.kind \in {"form", "multipart"} THEN body.rem ELSE 0

\* The contexts a caller passes: a live one, or nil.
Contexts == {"ctx", "nil"}
Background == "ctx"

NoRequest ==
  [ method |-> "", query |-> <<>>, headers |-> EmptyMap, body |-> NilBody,
    contentLength |-> 0, close |-> FALSE ]

\* validMethod of net/http: a method is a non-empty token; of the methods
\* of the model, "A B" is none.
ValidMethod(m) == m \in {"GET", "POST", "PUT"}

\* http.NewRequestWithContext: an empty method stands for GET; a method
\* that is no token and a nil Context are errors, checked in this order.
NewRequestWithContext(ctx, method, values, body) ==
  LET m == IF method = "" THEN "GET" ELSE method
  IN IF ~ValidMethod(m)
     THEN [req |-> NoRequest, err |-> Err("invalid method")]
     ELSE IF ctx = "nil"
     THEN [req |-> NoRequest, err |-> Err("nil Context")]
     ELSE [ req |-> [ method        |-> m,
                      query         |-> Encode(values),
                      headers       |-> EmptyMap,
                      body          |-> body,
                      contentLength |-> ContentLength(body),
                      close         |-> FALSE ],
            err |-> NilErr ]

\* build: the finalized transport request, or the error of
\* http.NewRequestWithContext.  req.Header is the builder's header map
\* itself, so what SetBasicAuth writes is written to r.headers.
build(rq, ctx) ==
  LET n   == NewRequestWithContext(ctx, rq.method, rq.values.m, rq.body)
      req == [n.req EXCEPT !.headers = rq.headers,
                           !.close = ~rq.keepAlive]
  IN IF ~IsNil(n.err) THEN n
     ELSE IF rq.basicAuthUsername # "" /\ rq.basicAuthPassword # ""
     THEN [ req |-> SetBasicAuth(req, rq.basicAuthUsername,
                                 rq.basicAuthPassword),
            err |-> NilErr ]
     ELSE [req |-> req, err |-> NilErr]


\* res.Header.Get("Content-Type") passed through contentType.
LookupKey(res) == contentType(res.hdr)

\* Mutant of handleResponse: a registered decoder is applied at once and
\* the result holds its output in place of the buffered bytes.
handleResponse_DecodedEagerly(rq, res, b) ==
  LET ct == LookupKey(res)
  IN [ nil     |-> FALSE,
       bytes   |-> IF ct \in DOMAIN rq.decoders
                   THEN Decode(rq.decoders[ct], b).v.b ELSE b,
       decoder |-> IF ct \in DOMAIN rq.decoders THEN rq.decoders[ct] ELSE "nil" ]

\* handleResponse: the decoder registered under the response's content-type
\* token (nil when there is none) is bound to the buffered bytes.
handleResponse(rq, res, b) ==
  LET ct == LookupKey(res)
  IN [ nil     |-> FALSE,
       bytes   |-> b,
       decoder |-> IF ct \in DOMAIN rq.decoders THEN rq.decoders[ct] ELSE "nil" ]

\* handleErrorResponse: the handler registered under the token, else the
\* default handler, applied to the response and the buffered bytes.
ErrorHandlerFor(rq, res) ==
  LET ct == LookupKey(res)
  IN IF ct \in DOMAIN rq.errorHandlers THEN rq.errorHandlers[ct]
     ELSE rq.defaultErrorHandler

handleErrorResponse(rq, res, b) ==
  Handle(ErrorHandlerFor(rq, res), res.status, b)

\* io.ReadAll(res.Body): one read of the body resource to its end.
ReadAll(res) ==
  [ res |-> [res EXCEPT !.reads = @ + 1],
    b   |-> IF res.kind = "readfail" THEN "" ELSE res.body,
    err |-> IF res.kind = "readfail" THEN Err("read") ELSE NilErr ]

\* Mutant of DeferredClose: the body is not closed when reading it failed.
DeferredClose_NotAfterReadFailure(res) ==
  IF res.kind = "readfail" THEN res ELSE [res EXCEPT !.closes = @ + 1]

\* defer res.Body.Close(): runs on every return that follows client.Do's
\* success.
DeferredClose(res) == [res EXCEPT !.closes = @ + 1]

\* Mutant of do: a transport error goes through the default error handler.
do_TransportErrorHandled(rq, net) ==
  IF net.kind = "terr"
  THEN [result |-> NilResult, err |-> Handle(rq.defaultErrorHandler, 0, ""),
        handler |-> rq.defaultErrorHandler, key |-> <<>>, res |-> net]
  ELSE LET rd  == ReadAll(net)
           res == DeferredClose(rd.res)
       IN IF ~IsNil(rd.err)
          THEN [result |-> NilResult, err |-> rd.err, handler |-> "none",
                key |-> <<>>, res |-> res]
          ELSE IF res.status # StatusOK
          THEN [ result  |-> NilResult,
                 err     |-> handleErrorResponse(rq, res, rd.b),
                 handler |-> ErrorHandlerFor(rq, res),
                 key     |-> LookupKey(res),
                 res     |-> res ]
          ELSE [ result  |-> handleResponse(rq, res, rd.b),
                 err     |-> NilErr,
                 handler |-> "none",
                 key     |-> LookupKey(res),
                 res     |-> res ]

\* do: dispatch, buffer the body, classify by status.  net is the client's
\* answer to client.Do(req); res is the response as do leaves it.
do(rq, net) ==
  IF net.kind = "terr"
  THEN [result |-> NilResult, err |-> Err("transport"), handler |-> "none",
        key |-> <<>>, res |-> net]
  ELSE LET rd  == ReadAll(net)
           res == DeferredClose(rd.res)
       IN IF ~IsNil(rd.err)
          THEN [result |-> NilResult, err |-> rd.err, handler |-> "none",
                key |-> <<>>, res |-> res]
          ELSE IF res.status # StatusOK
          THEN [ result  |-> NilResult,
                 err     |-> handleErrorResponse(rq, res, rd.b),
                 handler |-> ErrorHandlerFor(rq, res),
                 key     |-> LookupKey(res),
                 res     |-> res ]
          ELSE [ result  |-> handleResponse(rq, res, rd.b),
                 err     |-> NilErr,
                 handler |-> "none",
                 key     |-> LookupKey(res),
                 res     |-> res ]

----------------------------------------------------------------------------
(* Verbs *)

\* A custom EncoderFunc: (params) -> (io.Reader, error).
EncoderApply(e, p) ==
  IF p = "pBad"
  THEN [body |-> NilBody, err |-> Err("encode")]
  ELSE [body |-> [kind |-> e, data |-> << <<"p", p>> >>, rem |-> 0],
        err |-> NilErr]

\* The payloadFunc closures the verbs hand to TryDoFunc.
Payload(rq, pf) ==
  CASE pf.kind = "query" ->
         IF Len(pf.params) > 0
         THEN LET q == Query(rq, pf.params)
              IN [r |-> q.r, body |-> NilBody, err |-> NilErr,
                  panic |-> q.panic, encErr |-> q.encErr]
         ELSE [r |-> rq, body |-> NilBody, err |-> NilErr,
               panic |-> FALSE, encErr |-> FALSE]
    [] pf.kind = "encoder" ->
         LET e == EncoderApply(rq.encoder, pf.params[1])
         IN [r |-> rq, body |-> e.body, err |-> e.err,
             panic |-> FALSE, encErr |-> ~IsNil(e.err)]
    [] pf.kind = "fails" ->
         [r |-> rq, body |-> NilBody, err |-> Err("payload"),
          panic |-> FALSE, encErr |-> FALSE]
    [] OTHER ->
         [r |-> rq, body |-> pf.body, err |-> NilErr,
          panic |-> FALSE, encErr |-> FALSE]

\* multipart.NewWriter(&buf): log is what has been written to buf, in order.
NewWriter == [log |-> <<>>, closed |-> FALSE]

\* What a call did to its multipart writer and to its attachments.
Multipart(mw, atts) == [mw |-> mw, atts |-> atts]

\* What a Try* call leaves behind: the builder, the (Result, error) pair it
\* returns or the panic it ends in, and what happened on the way (acc is
\* r.values as the payload function left it, before the URL is loaded).
Returned(rq, result, err, sent, req, net, handler, key, acc, encErr) ==
  [ r |-> rq, panic |-> FALSE, result |-> result, err |-> err, sent |-> sent,
    req |-> req, net |-> net, handler |-> handler, key |-> key, acc |-> acc,
    encErr |-> encErr, mp |-> Multipart(NewWriter, <<>>) ]

NoNet ==
  [kind |-> "none", status |-> 0, hdr |-> <<>>, body |-> "",
   reads |-> 0, closes |-> 0]

Failed(rq, err, encErr) ==
  Returned(rq, NilResult, err, FALSE, NoRequest, NoNet, "none", <<>>,
           rq.values.m, encErr)

Panicked(rq, encErr) ==
  [ r |-> rq, panic |-> TRUE, result |-> NilResult, err |-> NilErr,
    sent |-> FALSE, req |-> NoRequest, net |-> NoNet, handler |-> "none",
    key |-> <<>>, acc |-> rq.values.m, encErr |-> encErr,
    mp |-> Multipart(NewWriter, <<>>) ]

\* TryDoFunc's header step: Cache-Control for every method but GET.
CacheControl(rq, method) ==
  IF method # "GET"
  THEN [rq EXCEPT !.headers = Set(@, "Cache-Control", "no-cache")]
  ELSE rq

\* client.Do sends the request body: a reader is left drained once a
\* response has come back, and untouched when the exchange failed before.
Drain(body, net) ==
  IF net.kind = "terr" THEN body ELSE [body EXCEPT !.rem = 0]

\* TryDoFunc.  After build, r.headers is the map the request carries.
TryDoFunc(rq, ctx, method, u, ct, pf, net) ==
  LET r1 == [rq EXCEPT !.method = method]
      p  == Payload(r1, pf)
  IN IF p.panic THEN Panicked(p.r, p.encErr)
     ELSE IF ~IsNil(p.err) THEN Failed(p.r, p.err, p.encErr)
     ELSE
       LET r2 == CacheControl(p.r, method)
           r3 == IF ct # "" /\ p.body.kind # "nil"
                 THEN [r2 EXCEPT !.headers = Set(@, "Content-Type", ct),
                                 !.body = p.body]
                 ELSE r2
           l  == loadURL(r3, u)
       IN IF ~IsNil(l.err)
          THEN [Failed(l.r, l.err, p.encErr) EXCEPT !.acc = r3.values.m]
          ELSE LET bd == build(l.r, ctx)
               IN IF ~IsNil(bd.err)
                  THEN [Failed(l.r, bd.err, p.encErr) EXCEPT
                          !.acc = r3.values.m]
                  ELSE LET d   == do(l.r, net)
                           r4  == [l.r EXCEPT !.headers = bd.req.headers,
                                              !.body = Drain(@, net)]
                       IN Returned(r4, d.result, d.err, TRUE, bd.req, d.res,
                                   d.handler, d.key, r3.values.m, p.encErr)

\* The verbs of the model are called with a live Context.
TryGet(rq, u, params, net) ==
  TryDoFunc(rq, Background, "GET", u, "", [kind |-> "query", params |-> params], net)

TryPost(rq, u, p, net) ==
  IF rq.encoder = "nil"
  THEN Failed(rq, ErrNoAvailableEncoder, FALSE)
  ELSE TryDoFunc(rq, Background, "POST", u, rq.encoderContentType,
                 [kind |-> "encoder", params |-> <<p>>], net)

\* len(v.Encode()): "k=v" for every pair, "&" between two pairs; the keys
\* and values of the model are one byte long and need no escaping.
ByteLen(q) == IF q = <<>> THEN 0 ELSE 4 * Len(q) - 1

\* Mutant of WriteField: the field is left out of the body.
WriteField_Omitted(mw, k, v) == mw

\* mw.WriteField: a form field part.
WriteField(mw, k, v) ==
  [mw EXCEPT !.log = Append(@, [ev |-> "field", k |-> k, v |-> v])]

\* The loop over the encoded parameters: a form field per key/value pair.
\* (Go ranges over the keys in no fixed order; the parameters of the model
\* encode to one key.)
RECURSIVE WriteFields(_, _)
WriteFields(mw, q) ==
  IF q = <<>> THEN mw
  ELSE WriteFields(WriteField(mw, q[1][1], q[1][2]), Tail(q))

\* mw.CreateFormFile: a file part header; writing to a bytes.Buffer does
\* not fail.
CreateFormFile(mw, fieldName, fileName) ==
  [ mw  |-> [mw EXCEPT !.log = Append(@, [ev |-> "file", k |-> fieldName,
                                          v |-> fileName])],
    err |-> NilErr ]

\* mw.Close(): the closing boundary.
WriterClose(mw) ==
  [mw EXCEPT !.log = Append(@, [ev |-> "close", k |-> "", v |-> ""]),
             !.closed = TRUE]

FormDataContentType(mw) == "multipart/form-data; boundary"

\* form.Bytes: an attachment over a bytes.Reader, with no closer.
form_Bytes(fieldName, fileName) ==
  [ fieldName |-> fieldName, fileName |-> fileName, closer |-> FALSE,
    readFails |-> FALSE, asked |-> 0, closes |-> 0 ]

\* form.File: os.Open succeeded (File panics otherwise); the file is reader
\* and closer.  readFails tells whether reading the file ends in an error,
\* as it does for a directory.
form_File(fieldName, fileName, readFails) ==
  [ fieldName |-> fieldName, fileName |-> fileName, closer |-> TRUE,
    readFails |-> readFails, asked |-> 0, closes |-> 0 ]

\* The error io.Copy returns for the attachment's reader.
CopyErr(d) == [type |-> "copy", status |-> 0, body |-> d.fileName]

\* Mutant of AttachTo: the error of io.Copy is not returned.
AttachTo_CopyErrorDropped(d, mw) ==
  LET c  == CreateFormFile(mw, d.fieldName, d.fileName)
      d1 == [d EXCEPT !.asked = @ + 1]
  IN IF ~IsNil(c.err)
     THEN [d |-> d1, mw |-> c.mw, err |-> c.err]
     ELSE [ d   |-> IF d.closer THEN [d1 EXCEPT !.closes = @ + 1] ELSE d1,
            mw  |-> c.mw,
            err |-> NilErr ]

\* MultipartFormData.AttachTo: asked counts the calls, closes the calls of
\* closer.Close.
AttachTo(d, mw) ==
  LET c  == CreateFormFile(mw, d.fieldName, d.fileName)
      d1 == [d EXCEPT !.asked = @ + 1]
  IN IF ~IsNil(c.err)
     THEN [d |-> d1, mw |-> c.mw, err |-> c.err]
     ELSE [ d   |-> IF d.closer THEN [d1 EXCEPT !.closes = @ + 1] ELSE d1,
            mw  |-> c.mw,
            err |-> IF d.readFails THEN CopyErr(d) ELSE NilErr ]

\* The loop over the attachments, from the i-th on: the first error ends it.
RECURSIVE AttachAll(_, _, _)
AttachAll(mw, atts, i) ==
  IF i > Len(atts) THEN [mw |-> mw, atts |-> atts, err |-> NilErr]
  ELSE LET a     == AttachTo(atts[i], mw)
           atts1 == [atts EXCEPT ![i] = a.d]
       IN IF ~IsNil(a.err)
          THEN [mw |-> a.mw, atts |-> atts1, err |-> a.err]
          ELSE AttachAll(a.mw, atts1, i + 1)

\* TryPostForm: the url-encoded form of the parameters, or with attachments
\* a multipart body of the parameters' fields and one file part each.
TryPostForm(rq, u, p, attachments, net) ==
  LET enc == SchemaEncode(p)
  IN IF ~IsNil(enc.err)
     THEN [Failed(rq, enc.err, TRUE) EXCEPT !.mp = Multipart(NewWriter, attachments)]
     ELSE IF Len(attachments) = 0
     THEN LET ve == Encode(enc.v)
          IN TryDoFunc(rq, Background, "POST", u, "application/x-www-form-urlencoded",
                       [kind |-> "reader",
                        body |-> [kind |-> "form", data |-> ve,
                                  rem |-> ByteLen(ve)]], net)
     ELSE LET mw1 == WriteFields(NewWriter, Encode(enc.v))
              a   == AttachAll(mw1, attachments, 1)
          IN IF ~IsNil(a.err)
             THEN [Failed(rq, a.err, FALSE) EXCEPT !.mp = Multipart(a.mw, a.atts)]
             ELSE LET mw2 == WriterClose(a.mw)
                      t   == TryDoFunc(rq, Background, "POST", u, FormDataContentType(mw2),
                                       [kind |-> "reader",
                                        body |-> [kind |-> "multipart",
                                                  data |-> mw2.log,
                                                  rem  |-> Len(mw2.log)]], net)
                  IN [t EXCEPT !.mp = Multipart(mw2, a.atts)]

\* Mutant of As: a missing decoder leaves the zero value and no error.
As_NilDecoderIgnored(res, target) ==
  IF target = "bytes"
  THEN [v |-> Bytes(res.bytes), err |-> NilErr, set |-> TRUE, decoded |-> FALSE]
  ELSE IF target = T
  THEN IF res.decoder = "nil"
       THEN [v |-> Zero, err |-> NilErr, set |-> FALSE, decoded |-> FALSE]
       ELSE LET d == Decode(res.decoder, res.bytes)
            IN IF ~IsNil(d.err)
               THEN [v |-> Zero, err |-> d.err, set |-> FALSE, decoded |-> TRUE]
               ELSE [v |-> d.v, err |-> NilErr, set |-> TRUE, decoded |-> TRUE]
  ELSE [v |-> Zero, err |-> ErrUnexpectedType, set |-> FALSE, decoded |-> FALSE]

\* HttpResult.As(value): target is the type value points to.  The *[]byte
\* case is tried before the *T case.
As(res, target) ==
  IF target = "bytes"
  THEN [v |-> Bytes(res.bytes), err |-> NilErr, set |-> TRUE, decoded |-> FALSE]
  ELSE IF target = T
  THEN IF res.decoder = "nil"
       THEN [v |-> Zero, err |-> ErrNoAvailableDecoder, set |-> FALSE,
             decoded |-> FALSE]
       ELSE LET d == Decode(res.decoder, res.bytes)
            IN IF ~IsNil(d.err)
               THEN [v |-> Zero, err |-> d.err, set |-> FALSE, decoded |-> TRUE]
               ELSE [v |-> d.v, err |-> NilErr, set |-> TRUE, decoded |-> TRUE]
  ELSE [v |-> Zero, err |-> ErrUnexpectedType, set |-> FALSE, decoded |-> FALSE]

\* Get / Post / PostForm: the Try* call, then result.As(&v) with v of type T.
\* A nil Result next to a nil error is dereferenced by result.As.  The
\* record is what the caller observes, with the call's arguments.
Resolve(op, args, u, t) ==
  LET base == [ op |-> op, args |-> args, url |-> u, acc |-> t.acc,
                val |-> Zero, err |-> NilErr, sent |-> t.sent,
                req |-> t.req, net |-> t.net, handler |-> t.handler,
                key |-> t.key, decoded |-> FALSE, encErr |-> t.encErr,
                mp |-> t.mp, kind |-> "panic" ]
  IN IF t.panic THEN base
     ELSE IF ~IsNil(t.err) THEN [base EXCEPT !.kind = "err", !.err = t.err]
     ELSE IF t.result.nil THEN base
     ELSE LET a == As(t.result, T)
          IN [base EXCEPT !.kind = IF IsNil(a.err) THEN "ok" ELSE "err",
                          !.val = a.v, !.err = a.err, !.decoded = a.decoded]

\* What the caller of a Try* function observes: the Result, unresolved,
\* and the error.
TryResult(op, args, u, t) ==
  [ op |-> op, args |-> args, url |-> u, acc |-> t.acc,
    val |-> Zero, err |-> t.err, sent |-> t.sent,
    req |-> t.req, net |-> t.net, handler |-> t.handler,
    key |-> t.key, decoded |-> FALSE, encErr |-> t.encErr,
    mp |-> t.mp,
    kind |-> IF t.panic THEN "panic"
             ELSE IF IsNil(t.err) THEN "result" ELSE "err" ]

NoURL == [valid |-> FALSE, query |-> <<>>]

\* What a builder call (Query, Decoder, ...) leaves to observe: whether it
\* returned or panicked, its arguments and r.values as it found them.
Chained(op, args, acc, panic, encErr) ==
  [ op |-> op, args |-> args, url |-> NoURL, acc |-> acc,
    val |-> Zero, err |-> NilErr, sent |-> FALSE, req |-> NoRequest,
    net |-> NoNet, handler |-> "none", key |-> <<>>, decoded |-> FALSE,
    encErr |-> encErr, mp |-> Multipart(NewWriter, <<>>),
    kind |-> IF panic THEN "panic" ELSE "ret" ]

----------------------------------------------------------------------------
(* The structured error that fetches its body on demand (NewError) *)

NilSlice == [nil |-> TRUE, b |-> <<>>]
Slice(b) == [nil |-> FALSE, b |-> b]

\* NewError(response): the body field is nil.  The response's body resource
\* holds data; failAt is the number of bytes a read yields before it ends
\* in an error (-1: it ends at the end of data).
NewError(response) ==
  [ made |-> TRUE, response |-> response, body |-> NilSlice,
    calls |-> 0, first |-> [b |-> NilSlice, err |-> NilErr],
    out |-> [b |-> NilSlice, err |-> NilErr] ]

NoError ==
  [ made |-> FALSE,
    response |-> [data |-> <<>>, failAt |-> -1, reads |-> 0, closes |-> 0],
    body |-> NilSlice,
    calls |-> 0, first |-> [b |-> NilSlice, err |-> NilErr],
    out |-> [b |-> NilSlice, err |-> NilErr] ]

\* io.ReadAll on the response body: the bytes read so far are returned as a
\* non-nil slice also when the read ends in an error; a body already read
\* has nothing left.
BodyReadAll(response) ==
  IF response.reads > 0
  THEN [b |-> Slice(<<>>), err |-> NilErr]
  ELSE IF response.failAt >= 0
  THEN [b |-> Slice(SubSeq(response.data, 1, response.failAt)),
        err |-> Err("read")]
  ELSE [b |-> Slice(response.data), err |-> NilErr]

\* Error.ResponseBody: reads (and closes) the body when e.body is nil.  The
\* record is the Error after the call, with what the call returned in out
\* and what the first call returned in first.
ResponseBody(eo) ==
  LET rd  == BodyReadAll(eo.response)
      ret == IF eo.body.nil
             THEN (IF ~IsNil(rd.err) THEN [b |-> NilSlice, err |-> rd.err]
                   ELSE [b |-> rd.b, err |-> NilErr])
             ELSE [b |-> eo.body, err |-> NilErr]
  IN [ eo EXCEPT
         !.body     = IF eo.body.nil THEN rd.b ELSE @,
         !.response = IF eo.body.nil
                      THEN [@ EXCEPT !.reads = @ + 1, !.closes = @ + 1]
                      ELSE @,
         !.calls    = @ + 1,
         !.out      = ret,
         !.first    = IF eo.calls = 0 THEN ret ELSE @ ]

----------------------------------------------------------------------------
(* The responder variant of dispatch: do[T] with one ResponderFunc[T] *)

\* values.IsNilOrZero(response): the value is nil or the zero value of T.
IsNilOrZero(v) == v = Zero

\* A ResponderFunc[T]: (response) -> (T, error); res is the response as the
\* responder leaves it.  "default" is the responder of NewRequest: on status
\* 200 it reads the body and returns it when T is []byte.  "rConv" reads
\* and converts the body, a JSON null to the zero value.  "rFail" returns
\* an error.
Respond(f, res) ==
  CASE f = "default" ->
         IF res.status = StatusOK
         THEN LET rd == ReadAll(res)
              IN IF ~IsNil(rd.err)
                 THEN [v |-> Zero, err |-> rd.err, res |-> rd.res]
                 ELSE [v |-> IF T = "bytes" THEN Bytes(rd.b) ELSE Zero,
                       err |-> NilErr, res |-> rd.res]
         ELSE [v |-> Zero, err |-> NilErr, res |-> res]
    [] f = "rConv" ->
         LET rd == ReadAll(res)
         IN IF ~IsNil(rd.err)
            THEN [v |-> Zero, err |-> rd.err, res |-> rd.res]
            ELSE [v |-> Decode("dConv", rd.b).v, err |-> NilErr,
                  res |-> rd.res]
    [] OTHER -> [v |-> Zero, err |-> Err("respond"), res |-> res]

\* do[T](client, req, responder).  structured tells that the error is
\* NewError(res).
do_T(responder, net) ==
  IF net.kind = "terr"
  THEN [v |-> Zero, err |-> Err("transport"), res |-> net,
        structured |-> FALSE]
  ELSE LET rp  == Respond(responder, net)
           res == DeferredClose(rp.res)
       IN IF ~IsNil(rp.err)
          THEN [v |-> Zero, err |-> rp.err, res |-> res, structured |-> FALSE]
          ELSE IF ~IsNilOrZero(rp.v)
          THEN [v |-> rp.v, err |-> NilErr, res |-> res, structured |-> FALSE]
          ELSE IF res.status # StatusOK
          THEN [v |-> Zero, err |-> [type |-> "Error", status |-> res.status,
                                     body |-> ""],
                res |-> res, structured |-> TRUE]
          ELSE [v |-> Zero, err |-> Err("no responders"), res |-> res,
                structured |-> FALSE]

\* The response an Error made by do[T] holds: do has closed its body, so a
\* read of it yields nothing and ends in an error.
ClosedResponse(res) ==
  [data |-> <<>>, failAt |-> 0, reads |-> 0, closes |-> res.closes]

\* The tail of DoFunc: t is the request as built and sent, d what do[T]
\* returned for it.  A request that was not sent has no do[T].
DoFuncResult(t, d) ==
  IF t.panic \/ ~t.sent
  THEN [t |-> t, v |-> Zero, structured |-> FALSE]
  ELSE [ t |-> [t EXCEPT !.err = d.err, !.net = d.res,
                         !.handler = "none", !.key = <<>>],
         v |-> d.v, structured |-> d.structured ]

\* DoFunc of the responder variant: the steps of TryDoFunc up to build, then
\* do[T] with the builder's responder.
DoFunc(rq, responder, method, u, ct, pf, net) ==
  DoFuncResult(TryDoFunc(rq, Background, method, u, ct, pf, net),
               do_T(responder, net))

\* strconv.Itoa, for the body lengths the model reaches.
Itoa(n) ==
  << "0", "1", "2", "3", "4", "5", "6", "7", "8", "9", "10", "11", "12",
     "13", "14", "15" >>[n + 1]

\* The value and the builder a call of the responder variant returns
\* before it reaches DoFunc.
NotDispatched(t) == [t |-> t, v |-> Zero, structured |-> FALSE]

\* Post of the responder variant.  Without attachments it stores a
\* Content-Length header and the body on the builder, then calls DoFunc;
\* with attachments it writes the multipart body first.
Post_T(rq, responder, u, p, attachments, net) ==
  LET enc == SchemaEncode(p)
  IN IF ~IsNil(enc.err)
     THEN NotDispatched([Failed(rq, enc.err, TRUE) EXCEPT
                           !.mp = Multipart(NewWriter, attachments)])
     ELSE IF Len(attachments) = 0
     THEN LET ve   == Encode(enc.v)
              body == [kind |-> "form", data |-> ve, rem |-> ByteLen(ve)]
              r1   == [rq EXCEPT
                         !.headers = Set(@, "Content-Length",
                                         Itoa(ByteLen(ve))),
                         !.body = body]
          IN DoFunc(r1, responder, "POST", u,
                    "application/x-www-form-urlencoded",
                    [kind |-> "reader", body |-> body], net)
     ELSE LET mw1 == WriteFields(NewWriter, Encode(enc.v))
              a   == AttachAll(mw1, attachments, 1)
          IN IF ~IsNil(a.err)
             THEN NotDispatched([Failed(rq, a.err, FALSE) EXCEPT
                                   !.mp = Multipart(a.mw, a.atts)])
             ELSE LET mw2 == WriterClose(a.mw)
                      c   == DoFunc(rq, responder, "POST", u,
                                    FormDataContentType(mw2),
                                    [kind |-> "reader",
                                     body |-> [kind |-> "multipart",
                                               data |-> mw2.log,
                                               rem  |-> Len(mw2.log)]], net)
                  IN [c EXCEPT !.t.mp = Multipart(mw2, a.atts)]

\* What the caller of a verb of the responder variant observes: the value
\* and the error returned.
ObservedDoFunc(f, u, t, v) ==
  [ op |-> "DoFunc", args |-> <<f>>, url |-> u,
    acc |-> t.acc, val |-> v, err |-> t.err,
    sent |-> t.sent, req |-> t.req, net |-> t.net,
    handler |-> "none", key |-> <<>>, decoded |-> FALSE,
    encErr |-> t.encErr, mp |-> t.mp,
    kind |-> IF IsNil(t.err) THEN "ok" ELSE "err" ]

\* The error object the caller holds after DoFunc: the one do[T] made with
\* NewError, or the one held before.
HeldError(c, held) ==
  IF c.structured THEN NewError(ClosedResponse(c.t.net)) ELSE held

----------------------------------------------------------------------------
(* Two builders side by side, their maps held by reference *)

\* Mutant of AllocMaps: the three maps are made once, at package level.
AllocMaps_PackageLevel(n) ==
  [headers |-> 1, decoders |-> 2, errorHandlers |-> 3]

\* The addresses of the maps the composite literals of NewRequestFunc make
\* in its n-th call: http.Header{}, map[string]DecoderFunc[T]{} and
\* map[string]ErrorHandlerFunc{}, three new maps per call.
AllocMaps(n) ==
  [headers |-> 3 * n - 2, decoders |-> 3 * n - 1, errorHandlers |-> 3 * n]

Addresses ==
  UNION { {AllocMaps(i).headers, AllocMaps(i).decoders,
           AllocMaps(i).errorHandlers} : i \in Builders }

\* What the caller of one builder observed from its latest call, and the
\* client the call was dispatched with.
Observed(res, client) == [res |-> res, client |-> client]

\* A caller that is in no call.
NoCall ==
  [ pending |-> FALSE, op |-> "", args |-> <<>>, net |-> NoNet,
    client |-> "none", t |-> Failed(NewRequestFunc, NilErr, FALSE) ]

\* The world after NewRequest was called once per builder.  b holds the
\* builder structs, whose map fields refer to heap through refs; wait holds
\* the verb each caller is blocked in; solo, soloLast and soloWait hold, for
\* comparison, every builder, its latest observation and its call as they
\* are when only that builder's own calls are applied to it.
NewWorld ==
  [ b        |-> [i \in Builders |-> NewRequestFunc],
    refs     |-> [i \in Builders |-> AllocMaps(i)],
    heap     |-> [a \in Addresses |-> EmptyMap],
    last     |-> [i \in Builders |->
                    Observed(Chained("NewRequest", <<>>, EmptyMap, FALSE, FALSE),
                             "none")],
    solo     |-> [i \in Builders |-> NewRequestFunc],
    soloLast |-> [i \in Builders |->
                    Observed(Chained("NewRequest", <<>>, EmptyMap, FALSE, FALSE),
                             "none")],
    wait     |-> [i \in Builders |-> NoCall],
    soloWait |-> [i \in Builders |-> NoCall],
    actor    |-> 0 ]

\* Builder i as its methods see it: the maps read through its references.
View(w, i) ==
  [w.b[i] EXCEPT !.headers       = w.heap[w.refs[i].headers],
                 !.decoders      = w.heap[w.refs[i].decoders],
                 !.errorHandlers = w.heap[w.refs[i].errorHandlers]]

\* Builder i after one of its methods: the struct, and the maps written
\* through its references.
Store(w, i, rq) ==
  [w EXCEPT !.b[i] = rq,
            !.heap = [a \in DOMAIN @ |->
                        IF a = w.refs[i].headers THEN rq.headers
                        ELSE IF a = w.refs[i].decoders THEN rq.decoders
                        ELSE IF a = w.refs[i].errorHandlers THEN rq.errorHandlers
                        ELSE @[a]]]

\* A verb up to the point where do blocks in client.Do: the builder is
\* written (method, values, headers, body) and the request is on its way;
\* t is the Try* call, net the answer that is to come.  A call that fails
\* before it sends returns at once.
Begin(rq, obs, op, args, u, t, net) ==
  IF t.panic \/ ~t.sent
  THEN [ r    |-> t.r,
         obs  |-> Observed(Resolve(op, args, u, t), ClientOf(rq)),
         wait |-> NoCall ]
  ELSE [ r    |-> t.r,
         obs  |-> obs,
         wait |-> [ pending |-> TRUE, op |-> op, args |-> args, net |-> net,
                    client |-> ClientOf(rq),
                    t |-> [t EXCEPT !.result = NilResult, !.err = NilErr,
                                    !.net = NoNet, !.handler = "none",
                                    !.key = <<>>] ] ]

\* The rest of the verb, once client.Do has returned: do reads the body and
\* the builder's decoder and error-handler maps as they are now, and the
\* verb resolves the result.
Complete(rq, w, u) ==
  LET d == do(rq, w.net)
      t == [w.t EXCEPT !.r = rq, !.result = d.result, !.err = d.err,
                       !.net = d.res, !.handler = d.handler, !.key = d.key]
  IN [ r    |-> rq,
       obs  |-> Observed(Resolve(w.op, w.args, u, t), w.client),
       wait |-> NoCall ]

----------------------------------------------------------------------------
(* The state machine: one builder of result type T, used by one caller *)

\* One answer of the client: status 200 with a JSON body.
FormNets ==
  { [kind |-> "resp", status |-> 200, hdr |-> JsonHdr, body |-> "b",
     reads |-> 0, closes |-> 0] }

\* A target URL that parses and has no query string.
PlainURL == [valid |-> TRUE, query |-> <<>>]

WithinBound(rq) == \A k \in DOMAIN rq.values.m : Len(rq.values.m[k]) <= MaxVals

Init ==
  /\ T \in ResultTypes
  /\ r = NewRequestFunc
  /\ last = Chained("NewRequest", <<>>, EmptyMap, FALSE, FALSE)
  /\ herr = NoError
  /\ world = NewWorld

CallDecoder ==
  \E ct \in RegKeys, d \in DecoderFuncs :
    /\ r' = Decoder(r, ct, d)
    /\ last' = Chained("Decoder", <<d>>, r.values.m, FALSE, FALSE)
    /\ UNCHANGED <<T, herr, world>>

CallError ==
  \E ct \in RegKeys, h \in ErrorHandlerFuncs :
    /\ r' = Error(r, ct, h)
    /\ last' = Chained("Error", <<h>>, r.values.m, FALSE, FALSE)
    /\ UNCHANGED <<T, herr, world>>

CallEncoder ==
  /\ r' = Encoder(r, "application/json", "eJson")
  /\ last' = Chained("Encoder", <<"eJson">>, r.values.m, FALSE, FALSE)
  /\ UNCHANGED <<T, herr, world>>

CallQueryStruct ==
  \E p \in Params :
    LET q == Query(r, <<p>>)
    IN /\ r' = q.r
       /\ last' = Chained("QueryStruct", <<p>>, r.values.m, q.panic, q.encErr)
       /\ UNCHANGED <<T, herr, world>>

CallQueryPair ==
  \E k \in Keys, v \in Vals :
    LET q == Query(r, <<k, v>>)
    IN /\ r' = q.r
       /\ last' = Chained("QueryPair", <<k, v>>, r.values.m, q.panic, q.encErr)
       /\ UNCHANGED <<T, herr, world>>

Get(us, ps, ns) ==
  \E u \in us, params \in ps, net \in ns :
    LET t == TryGet(r, u, params, net)
    IN /\ WithinBound(t.r)
       /\ r' = t.r
       /\ last' = Resolve("Get", params, u, t)
       /\ UNCHANGED <<T, herr, world>>

Post(us, ps, ns) ==
  \E u \in us, p \in ps, net \in ns :
    LET t == TryPost(r, u, p, net)
    IN /\ WithinBound(t.r)
       /\ r' = t.r
       /\ last' = Resolve("Post", <<p>>, u, t)
       /\ UNCHANGED <<T, herr, world>>

PostForm(us, ps, as, ns) ==
  \E u \in us, p \in ps, attachments \in as, net \in ns :
    LET t == TryPostForm(r, u, p, attachments, net)
    IN /\ WithinBound(t.r)
       /\ r' = t.r
       /\ last' = Resolve("PostForm", <<p>>, u, t)
       /\ UNCHANGED <<T, herr, world>>

CallBasicAuth ==
  \E username \in Usernames, password \in Passwords :
    /\ r' = BasicAuth(r, username, password)
    /\ last' = Chained("BasicAuth", <<username, password>>, r.values.m,
                       FALSE, FALSE)
    /\ UNCHANGED <<T, herr, world>>

WithinHeaderBound(rq) ==
  \A k \in DOMAIN rq.headers : Len(rq.headers[k]) <= MaxHeaderVals

CallMethod ==
  \E m \in Methods :
    /\ r' = Method(r, m)
    /\ last' = Chained("Method", <<m>>, r.values.m, FALSE, FALSE)
    /\ UNCHANGED <<T, herr, world>>

CallHeader ==
  \E kv \in HeaderPairs :
    /\ WithinHeaderBound(Header(r, kv[1], kv[2]))
    /\ r' = Header(r, kv[1], kv[2])
    /\ last' = Chained("Header", kv, r.values.m, FALSE, FALSE)
    /\ UNCHANGED <<T, herr, world>>

CallHeaders ==
  \E headers \in HeaderArgs :
    LET h == Headers(r, headers)
    IN /\ WithinHeaderBound(h.r)
       /\ r' = h.r
       /\ last' = Chained("Headers", <<headers.type>>, r.values.m, h.panic,
                          FALSE)
       /\ UNCHANGED <<T, herr, world>>

CallKeepAlive ==
  \E keepAlive \in BOOLEAN :
    /\ r' = KeepAlive(r, keepAlive)
    /\ last' = Chained("KeepAlive", <<keepAlive>>, r.values.m, FALSE, FALSE)
    /\ UNCHANGED <<T, herr, world>>

\* The payload functions of a caller's own TryDoFunc call: no body, a body,
\* an error.
PayloadFuncs ==
  { [kind |-> "reader", body |-> NilBody],
    [kind |-> "reader", body |-> [kind |-> "text", data |-> <<>>, rem |-> 0]],
    [kind |-> "fails", body |-> NilBody] }

\* TryDoFunc called by the caller, who keeps the Result and the error.
CallTryDoFunc ==
  \E ctx \in Contexts, method \in Methods, ct \in ContentTypes,
     pf \in PayloadFuncs, net \in FormNets :
    LET t == TryDoFunc(r, ctx, method, PlainURL, ct, pf, net)
    IN /\ r' = t.r
       /\ last' = TryResult("TryDoFunc", <<method, ct, ctx>>, PlainURL, t)
       /\ UNCHANGED <<T, herr, world>>

\* The attachments a caller builds for one call, in argument order.
Attachment(kind, i) ==
  CASE kind = "bytes" -> form_Bytes("f", FileNames[i])
    [] kind = "file"  -> form_File("f", FileNames[i], FALSE)
    [] OTHER          -> form_File("f", FileNames[i], TRUE)

AttachmentLists ==
  UNION { { [i \in 1..n |-> Attachment(f[i], i)] :
              f \in [1..n -> AttachmentKinds] } : n \in 0..MaxAttachments }

CallNewError ==
  \E response \in Responses :
    /\ response.failAt <= Len(response.data)
    /\ herr' = NewError(response)
    /\ UNCHANGED <<T, r, last, world>>

CallResponseBody ==
  /\ herr.made
  /\ herr.calls < MaxCalls
  /\ herr' = ResponseBody(herr)
  /\ UNCHANGED <<T, r, last, world>>

\* Response resolution: every verb against every answer of the client, on a
\* builder whose registries the caller fills; one target URL, no query input.

CallGet == Get({PlainURL}, {<<>>}, Nets)
CallPost == Post({PlainURL}, {"pB2", "pBad"}, Nets)
CallPostForm == PostForm({PlainURL}, {"pB2"}, {<<>>}, Nets)

Next ==
  \/ CallDecoder
  \/ CallError
  \/ CallEncoder
  \/ CallGet
  \/ CallPost
  \/ CallPostForm

Spec == Init /\ [][Next]_vars

\* Request building: every query input and target URL, against two answers
\* of the client, on a builder with empty registries.
QueryGet == Get(URLs, GetParams, QueryNets)
QueryPostForm == PostForm(URLs, Params, {<<>>}, QueryNets)

NextQuery ==
  \/ CallQueryStruct
  \/ CallQueryPair
  \/ QueryGet
  \/ QueryPostForm

SpecQuery == Init /\ [][NextQuery]_vars

\* Request headers: credentials and verbs on one builder, used repeatedly.
AuthGet == Get({PlainURL}, {<<>>}, QueryNets)
AuthPost == Post({PlainURL}, {"pB2"}, QueryNets)
AuthPostForm == PostForm({PlainURL}, {"pB2"}, {<<>>}, QueryNets)

NextAuth ==
  \/ CallBasicAuth
  \/ CallHeader
  \/ CallEncoder
  \/ AuthGet
  \/ AuthPost
  \/ AuthPostForm

SpecAuth == Init /\ [][NextAuth]_vars

\* Request settings: the caller's headers, method and keep-alive, Get,
\* PostForm and the caller's own TryDoFunc, against one answer of the
\* client.
HeaderGet == Get({PlainURL}, {<<>>}, FormNets)
HeaderPostForm == PostForm({PlainURL}, {"pB2"}, {<<>>}, FormNets)

NextHeaders ==
  \/ CallHeader
  \/ CallHeaders
  \/ CallMethod
  \/ CallKeepAlive
  \/ CallTryDoFunc
  \/ HeaderGet
  \/ HeaderPostForm

SpecHeaders == Init /\ [][NextHeaders]_vars

\* Form posts: every parameter value and attachment list, a valid and an
\* invalid target URL.
FormURLs == {PlainURL, [valid |-> FALSE, query |-> <<>>]}

FormPostForm == PostForm(FormURLs, {"pB2", "pBad"}, AttachmentLists, FormNets)
FormGet == Get({PlainURL}, {<<>>}, FormNets)

NextForm ==
  \/ FormPostForm
  \/ FormGet

SpecForm == Init /\ [][NextForm]_vars

\* The on-demand error body: errors over every response, asked repeatedly.
NextErrorBody ==
  \/ CallNewError
  \/ CallResponseBody

SpecErrorBody == Init /\ [][NextErrorBody]_vars

\* Get of the responder variant, on a builder holding the responder f.
ResponderGet ==
  \E f \in Responders, net \in Nets :
    LET c == DoFunc(r, f, "GET", PlainURL, "",
                    [kind |-> "query", params |-> <<>>], net)
    IN /\ r' = c.t.r
       /\ last' = ObservedDoFunc(f, PlainURL, c.t, c.v)
       /\ herr' = HeldError(c, herr)
       /\ UNCHANGED <<T, world>>

\* Post of the responder variant, with and without an attachment.
ResponderPost ==
  \E f \in Responders, p \in {"pB2", "pBad"},
     attachments \in {<<>>, <<Attachment("bytes", 1)>>}, net \in FormNets :
    LET c == Post_T(r, f, PlainURL, p, attachments, net)
    IN /\ r' = c.t.r
       /\ last' = [ObservedDoFunc(f, PlainURL, c.t, c.v) EXCEPT
                     !.args = <<f, p>>]
       /\ herr' = HeldError(c, herr)
       /\ UNCHANGED <<T, world>>

\* The responder variant: every responder against every answer of the
\* client, the body of the structured errors it makes, and the keep-alive
\* setting, which this variant defines as the other does.
NextResponder ==
  \/ ResponderGet
  \/ ResponderPost
  \/ CallKeepAlive
  \/ CallResponseBody

SpecResponder == Init /\ [][NextResponder]_vars

\* Two builders and one caller each, their calls interleaved.  F is the
\* step: from the builder it is made on, what its caller has observed and
\* the call the caller is in, to the same three after the step.
PairStep(i, F(_, _, _)) ==
  LET a == F(View(world, i), world.last[i], world.wait[i])
      s == F(world.solo[i], world.soloLast[i], world.soloWait[i])
  IN /\ world' = [Store(world, i, a.r) EXCEPT !.last[i] = a.obs,
                                              !.wait[i] = a.wait,
                                              !.solo[i] = s.r,
                                              !.soloLast[i] = s.obs,
                                              !.soloWait[i] = s.wait,
                                              !.actor = i]
     /\ UNCHANGED <<T, r, last, herr>>

PairDecoder ==
  \E i \in Builders, ct \in RegKeys :
    LET F(rq, obs, w) ==
          [ r    |-> Decoder(rq, ct, "dConv"),
            obs  |-> Observed(Chained("Decoder", <<"dConv">>, rq.values.m,
                                      FALSE, FALSE), "none"),
            wait |-> w ]
    IN ~world.wait[i].pending /\ PairStep(i, F)

PairHTTPClient ==
  \E i \in Builders, c \in Clients :
    LET F(rq, obs, w) ==
          [ r    |-> HTTPClient(rq, c),
            obs  |-> Observed(Chained("HTTPClient", <<c>>, rq.values.m,
                                      FALSE, FALSE), "none"),
            wait |-> w ]
    IN ~world.wait[i].pending /\ PairStep(i, F)

\* Get up to client.Do.
PairGet ==
  \E i \in Builders, net \in FormNets :
    LET F(rq, obs, w) ==
          Begin(rq, obs, "Get", <<>>, PlainURL,
                TryGet(rq, PlainURL, <<>>, net), net)
    IN ~world.wait[i].pending /\ PairStep(i, F)

\* PostForm up to client.Do.
PairPostForm ==
  \E i \in Builders, net \in FormNets :
    LET F(rq, obs, w) ==
          Begin(rq, obs, "PostForm", <<"pB2">>, PlainURL,
                TryPostForm(rq, PlainURL, "pB2", <<>>, net), net)
    IN ~world.wait[i].pending /\ PairStep(i, F)

\* client.Do returns to the caller blocked in it, and the verb completes.
PairReturn ==
  \E i \in Builders :
    LET F(rq, obs, w) == Complete(rq, w, PlainURL)
    IN world.wait[i].pending /\ PairStep(i, F)

NextPair ==
  \/ PairDecoder
  \/ PairHTTPClient
  \/ PairGet
  \/ PairPostForm
  \/ PairReturn

SpecPair == Init /\ [][NextPair]_vars

----------------------------------------------------------------------------
(* Response resolution: claims C1 - C5, checked under Spec *)

Verb == last.op \in {"Get", "Post", "PostForm"}

\* The last call was a verb whose response arrived and was buffered.
Responded == Verb /\ last.sent /\ last.net.kind = "resp"

\* The content-type token of the response, and what the builder has
\* registered under it.
ResponseToken == contentType(last.net.hdr)
HasDecoder == ResponseToken \in DOMAIN r.decoders
HasErrorHandler == ResponseToken \in DOMAIN r.errorHandlers
DecoderOutput == Decode(r.decoders[ResponseToken], last.net.body)

\* The content-type token as C5 defines it: the part of the header value
\* before the first ';', without leading or trailing whitespace.
TokenOf(value) == TrimSpace(SplitFirst(value))

\* The decoder registered under the content-type token of the response,
\* and what it makes of the buffered bytes.
TokenHasDecoder == TokenOf(last.net.hdr) \in DOMAIN r.decoders
TokenDecoderOutput ==
  Decode(r.decoders[TokenOf(last.net.hdr)], last.net.body)

\* C1: on status 200 with a decoder registered under the response's
\* content-type token (and producing a value), the call returns the decoder's
\* value on the buffered bytes with a nil error, for every result type T,
\* the raw byte slice included.
C1_DecoderOutputEveryT ==
  (Responded /\ last.net.status = StatusOK /\ TokenHasDecoder
     /\ IsNil(TokenDecoderOutput.err))
  => (last.kind = "ok" /\ IsNil(last.err) /\ last.val = TokenDecoderOutput.v)

\* The call that breaks C1: the result type is a struct, the response's
\* header has whitespace before the ';', a decoder that succeeds on the
\* body is registered under the token, and the call returns
\* ErrNoAvailableDecoder, the decoder not invoked.
C1_DecoderNotFound ==
  /\ Responded /\ last.net.status = StatusOK
  /\ T = "struct"
  /\ last.net.hdr = <<"j", " ", ";", "c">>
  /\ TokenHasDecoder /\ IsNil(TokenDecoderOutput.err)
  /\ last.kind = "err" /\ last.err = ErrNoAvailableDecoder
  /\ ~last.decoded

\* C2 as stated: every response whose status is not 200 makes the call
\* return a non-nil error without invoking a decoder, and that error is the
\* output of the handler registered under the response's content-type token,
\* else of the default handler, whatever the registered handler is.
C2_NonOKIsHandlerError ==
  (Responded /\ last.net.status # StatusOK)
  => /\ last.kind = "err"
     /\ ~IsNil(last.err)
     /\ ~last.decoded
     /\ last.err = Handle(IF HasErrorHandler THEN r.errorHandlers[ResponseToken]
                          ELSE r.defaultErrorHandler,
                          last.net.status, last.net.body)

\* C3: a non-200 response with no error handler registered under its
\* content-type token yields a structured Error carrying the response's status
\* code and the raw body bytes.
C3_DefaultStructuredError ==
  (Responded /\ last.net.status # StatusOK /\ ~HasErrorHandler)
  => /\ last.kind = "err"
     /\ last.err.type = "Error"
     /\ last.err.status = last.net.status
     /\ last.err.body = last.net.body

C3_Witness ==
  /\ Responded /\ ~HasErrorHandler
  /\ last.net.status = 404
  /\ last.err = [type |-> "Error", status |-> 404, body |-> "b"]

\* C4 as stated: on status 200 with no decoder registered under the
\* content-type token, resolving into T fails with ErrNoAvailableDecoder and
\* produces no value, for every result type T.
C4_NoDecoderEveryT ==
  (Responded /\ last.net.status = StatusOK /\ ~HasDecoder)
  => (last.kind = "err" /\ last.err = ErrNoAvailableDecoder /\ last.val = Zero)

\* C4 amended: the same for every result type T other than the raw byte
\* slice; when T is the raw byte slice the call returns the buffered bytes
\* with a nil error.
C4_NoDecoder ==
  (Responded /\ last.net.status = StatusOK /\ ~HasDecoder)
  => IF T = "bytes"
     THEN last.kind = "ok" /\ IsNil(last.err) /\ last.val = Bytes(last.net.body)
     ELSE last.kind = "err" /\ last.err = ErrNoAvailableDecoder /\ last.val = Zero

C4_Witness ==
  /\ Responded /\ last.net.status = StatusOK /\ ~HasDecoder
  /\ T = "struct"
  /\ last.err = ErrNoAvailableDecoder
  /\ r.decoders # EmptyMap

\* C5: the key the resolver looks decoders and error handlers up under is,
\* for any Content-Type header value, the part before the first ';' with no
\* leading or trailing whitespace.
C5_KeyIsTrimmedToken ==
  Responded => last.key = TokenOf(last.net.hdr)

----------------------------------------------------------------------------
(* Request building: claims C6 - C10, checked under SpecQuery *)

\* How often the pair <<k, v>> occurs in a query string.
Count(q, k, v) == Cardinality({i \in 1..Len(q) : q[i] = <<k, v>>})

\* The values of key k in a query string, in order.
RECURSIVE ValuesOf(_, _)
ValuesOf(q, k) ==
  IF q = <<>> THEN <<>>
  ELSE (IF q[1][1] = k THEN <<q[1][2]>> ELSE <<>>) \o ValuesOf(Tail(q), k)

Dispatched == Verb /\ last.sent

\* C6: the finalized query string holds every value accumulated through
\* Query and every value of the target URL's query string, each as often as
\* the two sources hold it together (none dropped, none deduplicated).
C6_QueryMerged ==
  Dispatched =>
    \A k \in Keys, v \in Vals :
      Count(last.req.query, k, v)
        = Count(Encode(last.acc), k, v) + Count(last.url.query, k, v)

C6_Witness ==
  /\ Dispatched
  /\ last.acc = Set(EmptyMap, "a", "1")
  /\ last.url.query = << <<"a", "1">> >>
  /\ last.req.query = << <<"a", "1">>, <<"a", "1">> >>

\* Keys that both the accumulated Query values and the URL's query carry.
InBoth(k) == k \in DOMAIN last.acc /\ ValuesOf(last.url.query, k) # <<>>

\* C7 as stated: a key set both through Query and by the target URL's query
\* string ends with a single value on the finalized request (last set wins).
C7_LastSetWins ==
  Dispatched =>
    \A k \in Keys : InBoth(k) => Len(ValuesOf(last.req.query, k)) = 1

\* C7 amended: for such a key neither source wins; the finalized request
\* carries the values accumulated through Query followed by the URL's values.
C7_BothSourcesKept ==
  Dispatched =>
    \A k \in Keys :
      InBoth(k) =>
        ValuesOf(last.req.query, k)
          = last.acc[k] \o ValuesOf(last.url.query, k)

C7_Witness ==
  /\ Dispatched
  /\ InBoth("a")
  /\ ValuesOf(last.req.query, "a") = <<"2", "1">>

\* C8: Query with one key/value pair returns normally and leaves exactly that
\* value under the key, whatever the builder's state, a fresh builder included.
C8_QueryPairSets ==
  last.op = "QueryPair" =>
    /\ last.kind = "ret"
    /\ last.args[1] \in DOMAIN r.values.m
    /\ r.values.m[last.args[1]] = <<last.args[2]>>

\* C9: after Query with one struct-like value the accumulated query mapping
\* is exactly the encoder's output for that value, whatever was accumulated
\* before (as a call of its own or as the params of Get).
C9_StructReplaces ==
  /\ (last.op = "QueryStruct" /\ IsNil(SchemaEncode(last.args[1]).err))
       => (~r.values.nil /\ r.values.m = SchemaEncode(last.args[1]).v)
  /\ (last.op = "Get" /\ Len(last.args) = 1
        /\ IsNil(SchemaEncode(last.args[1]).err))
       => last.acc = SchemaEncode(last.args[1]).v

C9_Witness ==
  /\ last.op = "QueryStruct"
  /\ last.args = <<"pB2">>
  /\ "a" \in DOMAIN last.acc
  /\ r.values.m = Set(EmptyMap, "b", "2")

\* C10: when the Parameter Encoder fails during a verb call, the call returns
\* that failure as its error and no request is dispatched.
C10_EncodingFailurePropagates ==
  (Verb /\ last.encErr)
  => (last.kind = "err" /\ last.err.type \in {"schema", "encode"} /\ ~last.sent)

----------------------------------------------------------------------------
(* Request headers: claim C11, checked under SpecAuth *)

HasCredentials == r.basicAuthUsername # "" /\ r.basicAuthPassword # ""

\* The Authorization values SetBasicAuth can write.
BasicValues == { basicAuth(u, p) : u \in Usernames, p \in Passwords }

\* The header map holds a basic-auth Authorization value (a caller's own
\* Authorization header, of another scheme, is not one).
HasBasicAuth(headers) ==
  /\ "Authorization" \in DOMAIN headers
  /\ \E i \in 1..Len(headers["Authorization"]) :
       headers["Authorization"][i] \in BasicValues

\* C11: a dispatched request carries a basic-auth Authorization header if
\* and only if the username and the password stored on the builder are both
\* non-empty.  (A verb does not change the stored credentials, so r holds
\* what build read.)
C11_AuthorizationIffCredentials ==
  (Verb /\ last.sent) => (HasBasicAuth(last.req.headers) <=> HasCredentials)

\* The request that breaks C11: dispatched with a basic-auth Authorization
\* header from a builder whose credentials are empty.
C11_StaleAuthorization ==
  /\ Verb /\ last.sent
  /\ ~HasCredentials
  /\ HasBasicAuth(last.req.headers)

----------------------------------------------------------------------------
(* Cache-Control: claim C19, checked under SpecHeaders *)

NoCacheSet(req) ==
  /\ "Cache-Control" \in DOMAIN req.headers
  /\ req.headers["Cache-Control"] = <<"no-cache">>

\* C19: every dispatched request of a method other than GET carries
\* Cache-Control: no-cache, whatever the caller stored under that key, and
\* a GET request dispatched by a builder that stores no Cache-Control
\* header (as a fresh builder does, unless its caller set one) carries
\* none.  The method is that of the finalized request.
C19_CacheControl ==
  [][ /\ (/\ last'.op \in {"Post", "PostForm", "TryDoFunc"}
          /\ last'.sent
          /\ last'.req.method # "GET")
           => NoCacheSet(last'.req)
      /\ (/\ last'.op \in {"Get", "TryDoFunc"}
          /\ last'.sent
          /\ last'.req.method = "GET"
          /\ "Cache-Control" \notin DOMAIN r.headers)
           => "Cache-Control" \notin DOMAIN last'.req.headers ]_vars

\* The request that breaks C19: TryDoFunc was called with the empty method,
\* which the transport request takes for GET, and the GET carries
\* Cache-Control: no-cache.
C19_NoCacheOnGet ==
  /\ last.op = "TryDoFunc" /\ last.sent
  /\ last.args[1] = ""
  /\ last.req.method = "GET"
  /\ NoCacheSet(last.req)

----------------------------------------------------------------------------
(* Form posts: claims C12 - C15, checked under SpecForm *)

Atts == last.mp.atts

\* The k-th attachment was asked to write itself and returned an error.
FailedAt(k) == k \in DOMAIN Atts /\ Atts[k].asked > 0 /\ Atts[k].readFails

\* C12: when the k-th attachment of a PostForm fails to write, no later
\* attachment is asked to write, the writer is not finalized, nothing is
\* dispatched and the call returns exactly that attachment's error.
C12_AttachmentFailureAborts ==
  \A k \in 1..MaxAttachments :
    (last.op = "PostForm" /\ FailedAt(k)) =>
      /\ \A j \in DOMAIN Atts : j > k => Atts[j].asked = 0
      /\ ~last.mp.mw.closed
      /\ ~last.sent
      /\ last.kind = "err"
      /\ last.err = CopyErr(Atts[k])

C12_Witness ==
  /\ last.op = "PostForm"
  /\ Len(Atts) = 2
  /\ FailedAt(1)
  /\ Atts[2].readFails

\* C13: when a PostForm call has returned, every file-backed attachment it
\* was given has had its file closed exactly once.
C13_FileReleasedOnce ==
  last.op = "PostForm" =>
    \A i \in DOMAIN Atts : Atts[i].closer => Atts[i].closes = 1

\* The leak that breaks C13: a file-backed attachment behind a failing one
\* is still open when the call has returned.
C13_FileLeftOpen ==
  /\ last.op = "PostForm"
  /\ Len(Atts) = 2
  /\ FailedAt(1)
  /\ Atts[2].closer /\ Atts[2].closes = 0

\* The url-encoded form of the parameters of the last PostForm.
EncodedForm == Encode(SchemaEncode(last.args[1]).v)

HeaderIs(req, k, v) == k \in DOMAIN req.headers /\ req.headers[k] = <<v>>

\* C14: a PostForm without attachments dispatches the url-encoded form as
\* its body, with Content-Type application/x-www-form-urlencoded and a
\* content length equal to the byte length of the encoded form.
C14_FormBody ==
  (last.op = "PostForm" /\ Len(Atts) = 0 /\ last.sent) =>
    /\ last.req.body.kind = "form"
    /\ last.req.body.data = EncodedForm
    /\ HeaderIs(last.req, "Content-Type", "application/x-www-form-urlencoded")
    /\ last.req.contentLength = ByteLen(EncodedForm)

C14_Witness ==
  /\ last.op = "PostForm" /\ Len(Atts) = 0 /\ last.sent
  /\ last.req.body.data = << <<"b", "2">> >>
  /\ last.req.contentLength = 3

\* The multipart body the last PostForm has to build: a field per encoded
\* pair, a file part per attachment in argument order, the closing boundary.
ExpectedFields ==
  [i \in 1..Len(EncodedForm) |->
     [ev |-> "field", k |-> EncodedForm[i][1], v |-> EncodedForm[i][2]]]

ExpectedParts ==
  [i \in 1..Len(Atts) |->
     [ev |-> "file", k |-> Atts[i].fieldName, v |-> Atts[i].fileName]]

ExpectedLog ==
  ExpectedFields \o ExpectedParts \o <<[ev |-> "close", k |-> "", v |-> ""]>>

IsPrefix(s, t) == Len(s) <= Len(t) /\ s = SubSeq(t, 1, Len(s))

\* C15: a PostForm with attachments writes the fields, then the attachments
\* in argument order, then finalizes the writer; what it dispatches is the
\* finalized body, one file part per attachment, under the writer's content
\* type; a call that stops early has written a prefix of that order.
C15_MultipartOrder ==
  (last.op = "PostForm" /\ Len(Atts) > 0 /\ ~last.encErr) =>
    /\ IsPrefix(last.mp.mw.log, ExpectedLog)
    /\ Len(last.mp.mw.log) >= Len(ExpectedFields)
    /\ last.sent =>
          /\ last.mp.mw.closed
          /\ last.mp.mw.log = ExpectedLog
          /\ last.req.body.kind = "multipart"
          /\ last.req.body.data = ExpectedLog
          /\ HeaderIs(last.req, "Content-Type",
                      FormDataContentType(last.mp.mw))

C15_Witness ==
  /\ last.op = "PostForm" /\ Len(Atts) = 2 /\ last.sent
  /\ Len(last.req.body.data) = 4

----------------------------------------------------------------------------
(* Dispatch outcomes: claims C16 - C18, checked under Spec *)

\* C16: when the client returns a transport error the call returns that
\* error itself, which is no structured Error, and neither an error handler
\* nor a decoder has run.
C16_TransportErrorVerbatim ==
  (Verb /\ last.sent /\ last.net.kind = "terr") =>
    /\ last.kind = "err"
    /\ last.err = Err("transport")
    /\ last.err.type # "Error"
    /\ last.handler = "none"
    /\ ~last.decoded

C16_Witness ==
  /\ Verb /\ last.sent /\ last.net.kind = "terr"
  /\ DOMAIN r.errorHandlers # {} /\ DOMAIN r.decoders # {}
  /\ last.err = Err("transport")

\* A response came back for the last call (its body may fail to read).
Received == Verb /\ last.sent /\ last.net.kind \in {"resp", "readfail"}

\* C17: whenever a response is received its body is read once and closed
\* once when the call has returned, whatever the status and also when the
\* read fails; an error handler is applied to the buffered bytes.
C17_BodyReadOnceAndClosed ==
  Received =>
    /\ last.net.reads = 1
    /\ last.net.closes = 1
    /\ last.handler # "none" =>
          last.err = Handle(last.handler, last.net.status, last.net.body)

C17_Witness ==
  /\ Received /\ last.net.kind = "readfail"
  /\ last.net.reads = 1 /\ last.net.closes = 1

\* The last call met one of the failures: an encoding error, a transport
\* error, a body-read error, a status other than 200, a missing decoder or
\* a decoder error (T = []byte takes no decoder).
CallFailed ==
  /\ Verb
  /\ \/ last.encErr
     \/ last.sent /\ last.net.kind \in {"terr", "readfail"}
     \/ Responded /\ last.net.status # StatusOK
     \/ /\ Responded /\ last.net.status = StatusOK /\ T # "bytes"
        /\ (HasDecoder => ~IsNil(DecoderOutput.err))

\* C18: every failed call returns the zero value of T and a non-nil error.
C18_FailureIsZeroAndError ==
  CallFailed => (last.kind = "err" /\ last.val = Zero /\ ~IsNil(last.err))

\* The failed call that breaks C18: a status other than 200 and no error
\* returned.
C18_FailureWithoutError ==
  /\ Responded /\ last.net.status # StatusOK
  /\ last.kind = "panic"

----------------------------------------------------------------------------
(* The on-demand error body: claim C20, checked under SpecErrorBody *)

\* C20: over any sequence of ResponseBody calls on one Error the response
\* body is read at most once and every call returns what the first call
\* returned.
C20_ReadOnceSameOutcome ==
  (herr.made /\ herr.calls >= 1) =>
    /\ herr.response.reads <= 1
    /\ herr.out = herr.first

\* The call that breaks C20: the first call returned an error, a later one
\* returns bytes and no error.
C20_ErrorThenBytes ==
  /\ herr.made /\ herr.calls >= 2
  /\ ~IsNil(herr.first.err)
  /\ IsNil(herr.out.err) /\ ~herr.out.b.nil

----------------------------------------------------------------------------
(* Zero-valued successes: claim C21, checked under SpecResponder *)

\* What the responder of the last DoFunc returned for the response.
ResponderOutput ==
  Respond(last.args[1], [last.net EXCEPT !.reads = 0, !.closes = 0])

\* The last call got status 200 and its decoder (or responder) returned the
\* zero value with a nil error.
ZeroValuedSuccess ==
  /\ last.sent /\ last.net.kind = "resp" /\ last.net.status = StatusOK
  /\ \/ /\ Verb /\ T # "bytes" /\ HasDecoder
        /\ DecoderOutput = [v |-> Zero, err |-> NilErr]
     \/ /\ last.op = "DoFunc"
        /\ IsNil(ResponderOutput.err) /\ ResponderOutput.v = Zero

\* C21: on status 200 a decoder or responder that returns the zero value
\* with a nil error makes the call return the zero value with a nil error.
C21_ZeroValueIsSuccess ==
  ZeroValuedSuccess => (last.kind = "ok" /\ last.val = Zero /\ IsNil(last.err))

\* The call that breaks C21: the responder's zero value has become the
\* "no responders" error.
C21_NoResponders ==
  /\ ZeroValuedSuccess
  /\ last.kind = "err" /\ last.err = Err("no responders")

----------------------------------------------------------------------------
(* Raw byte results: claim C22, checked under Spec *)

\* C22: when T is []byte a 200 response resolves to the buffered body as
\* received, with a nil error, whether or not a decoder is registered for
\* the content type, and no decoder runs.
C22_RawBytesBypassDecoder ==
  (Responded /\ last.net.status = StatusOK /\ T = "bytes") =>
    /\ last.kind = "ok"
    /\ IsNil(last.err)
    /\ last.val = Bytes(last.net.body)
    /\ ~last.decoded

C22_Witness ==
  /\ Responded /\ last.net.status = StatusOK /\ T = "bytes"
  /\ HasDecoder
  /\ DecoderOutput.v # Bytes(last.net.body)
  /\ last.val = Bytes(last.net.body)

----------------------------------------------------------------------------
(* Builder reuse: claim C23, checked under SpecQuery *)

URLWithQuery == [valid |-> TRUE, query |-> << <<"a", "1">> >>]

\* C23: every dispatch to the URL ...?a=1 that passes no query parameters
\* adds one more a=1 to the builder's accumulated values: the request
\* carries one copy more than the builder held before the call and the
\* builder keeps them, so the n-th such call in a row carries n copies.
C23_DispatchAppendsAgain ==
  [][ ( /\ last'.op \in {"Get", "PostForm"} /\ last'.sent
        /\ last'.url = URLWithQuery
        /\ last'.op = "Get" => last'.args = <<>> )
      => /\ Count(last'.req.query, "a", "1")
              = Count(Encode(r.values.m), "a", "1") + 1
         /\ Encode(r'.values.m) = last'.req.query ]_vars

\* The second call in a row on a fresh builder: two copies of a=1.
C23_Witness ==
  /\ last.op = "Get" /\ last.args = <<>> /\ last.sent
  /\ last.url = URLWithQuery
  /\ last.acc = Set(EmptyMap, "a", "1")
  /\ last.req.query = << <<"a", "1">>, <<"a", "1">> >>
  /\ r.values.m = [k \in {"a"} |-> <<"1", "1">>]

----------------------------------------------------------------------------
(* Stored headers: claim C24, checked under SpecAuth *)

\* C24: a verb changes the builder's stored headers at Content-Type and
\* Cache-Control only (a header of the caller's stays as it was, and no
\* other key appears), and a request dispatched from a builder whose
\* username or password is empty carries no basic-auth Authorization
\* header.
C24_FinalizeKeepsHeaders ==
  [][ (last'.op \in {"Get", "Post", "PostForm"}) =>
        /\ \A k \in (DOMAIN r.headers \cup DOMAIN r'.headers)
                       \ {"Content-Type", "Cache-Control"} :
              /\ k \in DOMAIN r.headers
              /\ k \in DOMAIN r'.headers
              /\ r'.headers[k] = r.headers[k]
        /\ (last'.sent /\ ~HasCredentials')
              => ~HasBasicAuth(last'.req.headers) ]_vars

\* The builder that breaks C24: its credentials have just been cleared and
\* its stored headers hold the Authorization of an earlier dispatch.
C24_AuthorizationStored ==
  /\ last.op = "BasicAuth"
  /\ ~HasCredentials
  /\ HasBasicAuth(r.headers)

----------------------------------------------------------------------------
(* Separate builders: claim C25, checked under SpecPair *)

\* C25: under every interleaving of the calls on two builders, each builder
\* is what its own calls alone make of it, and what its caller observed
\* (the finalized request, the client used, the resolved result) is what
\* those calls alone produce: no call on one builder shows on the other.
C25_BuildersIndependent ==
  \A i \in Builders :
    /\ View(world, i) = world.solo[i]
    /\ world.last[i] = world.soloLast[i]
    /\ world.wait[i] = world.soloWait[i]

\* The caller of builder 1, which holds a client of its own, is blocked in
\* a PostForm that has written the builder's headers; meanwhile builder 2
\* got a decoder and completed a GET with the default client, no headers
\* and its own decoder map.
C25_Witness ==
  /\ world.actor = 2
  /\ world.wait[1].pending /\ world.wait[1].op = "PostForm"
  /\ View(world, 1).httpClient = "c1"
  /\ View(world, 1).headers # EmptyMap
  /\ View(world, 1).decoders = EmptyMap
  /\ ~world.wait[2].pending
  /\ world.last[2].res.op = "Get" /\ world.last[2].res.sent
  /\ world.last[2].res.kind = "ok"
  /\ world.last[2].client = "DefaultClient"
  /\ world.last[2].res.req.headers = EmptyMap
  /\ View(world, 2).decoders # EmptyMap

====
